---- MODULE Spec2Model ----
(***************************************************************************)
(* Model of jhipster-core's JDL front end:                                 *)
(*   - src/lib/parser/document_parser.js : parseFromConfigurationObject,   *)
(*     the assembler that turns a parsed document into a JDLObject;        *)
(*   - src/lib/dsl/lexer.js : the token catalog and the JDLLexer built     *)
(*     from it.                                                            *)
(* JavaScript strings the code inspects character by character are         *)
(* modelled as tuples of one-character strings ("User" is                  *)
(* <<"U","s","e","r">>), so that lowerFirst, toLowerCase, camelCase and    *)
(* the lexer's patterns are computed rather than assumed.                  *)
(***************************************************************************)
EXTENDS Integers, Sequences, FiniteSets, TLC

\* ------------------------------------------------------------------------
\* JavaScript values
\* ------------------------------------------------------------------------

\* The JavaScript value undefined: a tuple no character string is equal to.
undefined == <<"undefined">>

\* JavaScript truthiness of a string-or-undefined value.
Truthy(x) == x # undefined /\ x # <<>>

UpperChars == <<"A","B","C","D","E","F","G","H","I","J","K","L","M",
                "N","O","P","Q","R","S","T","U","V","W","X","Y","Z">>
LowerChars == <<"a","b","c","d","e","f","g","h","i","j","k","l","m",
                "n","o","p","q","r","s","t","u","v","w","x","y","z">>
DigitChars == {"0","1","2","3","4","5","6","7","8","9"}

IsUpper(c) == \E i \in 1..26 : UpperChars[i] = c
IsLower(c) == \E i \in 1..26 : LowerChars[i] = c
Lower(c) == IF IsUpper(c) THEN LowerChars[CHOOSE i \in 1..26 : UpperChars[i] = c] ELSE c
Upper(c) == IF IsLower(c) THEN UpperChars[CHOOSE i \in 1..26 : LowerChars[i] = c] ELSE c

\* String.prototype.toLowerCase
toLowerCase(s) == [i \in 1..Len(s) |-> Lower(s[i])]

\* _.lowerFirst / _.upperFirst
lowerFirst(s) == IF s = <<>> THEN s ELSE <<Lower(s[1])>> \o Tail(s)
upperFirst(s) == IF s = <<>> THEN s ELSE <<Upper(s[1])>> \o Tail(s)

\* _.camelCase: the words of s (split at separators and at a lower-to-upper
\* case change), each lower-cased, all but the first capitalised, joined.
IsSeparator(c) == c \in {"-", "_", " "}
RECURSIVE camelCaseFrom(_, _, _)
camelCaseFrom(s, k, out) ==
  IF k > Len(s) THEN out
  ELSE IF IsSeparator(s[k]) THEN camelCaseFrom(s, k + 1, out)
  ELSE LET wordStart == k = 1 \/ IsSeparator(s[k - 1])
                        \/ (IsUpper(s[k]) /\ IsLower(s[k - 1]))
           c == IF wordStart /\ out # <<>> THEN Upper(s[k]) ELSE Lower(s[k])
       IN camelCaseFrom(s, k + 1, Append(out, c))
camelCase(s) == camelCaseFrom(s, 1, <<>>)

\* obj[key] on a plain object: undefined when the key is absent.
Get(obj, key) == IF key \in DOMAIN obj THEN obj[key] ELSE undefined

\* obj[key] = value on a plain object.
Put(obj, key, value) ==
  [k \in DOMAIN obj \cup {key} |-> IF k = key THEN value ELSE obj[k]]

\* The object with no keys.
EmptyObject == [k \in {} |-> undefined]

\* Array.prototype.includes
Includes(list, x) == \E i \in 1..Len(list) : list[i] = x

\* utils/format_utils formatComment: undefined for no comment, otherwise the
\* comment without its surrounding blanks and leading asterisks.
RECURSIVE StripLeft(_)
StripLeft(s) ==
  IF s # <<>> /\ Head(s) \in {" ", "*"} THEN StripLeft(Tail(s)) ELSE s
RECURSIVE StripRight(_)
StripRight(s) ==
  IF s # <<>> /\ s[Len(s)] = " " THEN StripRight(SubSeq(s, 1, Len(s) - 1)) ELSE s
formatComment(comment) ==
  IF ~Truthy(comment) THEN undefined ELSE StripRight(StripLeft(comment))

\* ------------------------------------------------------------------------
\* Names used by the documents
\* ------------------------------------------------------------------------
sA == <<"A">>
sB == <<"B">>
sUser == <<"U","s","e","r">>
sUserLower == <<"u","s","e","r">>
sJhiUser == <<"j","h","i","_","u","s","e","r">>
sMyUser == <<"m","y","_","u","s","e","r">>
sBTab == <<"b","_","t","a","b">>
sId == <<"i","d">>
sIdUpper == <<"I","D">>
sIdMixed == <<"i","D">>
sFirstName == <<"f","i","r","s","t","N","a","m","e">>
sEmail == <<"E","m","a","i","l">>
sEmailLower == <<"e","m","a","i","l">>
sLogin == <<"l","o","g","i","n">>
sOwner == <<"o","w","n","e","r">>
sItems == <<"i","t","e","m","s">>
sMaxLen == <<"M","A","X","L","E","N">>
sFifty == <<"5","0">>
sTwo == <<"2">>
sInvoicing == <<"i","n","v","o","i","c","i","n","g">>
sStore == <<"s","t","o","r","e">>
sVersion == <<"5",".","0",".","0">>
sOldVersion == <<"4",".","9",".","0">>
sDoc == <<" ","*"," ","d","o","c"," ">>
sOneToMany == <<"O","n","e","T","o","M","a","n","y">>
sManyToOne == <<"m","a","n","y","-","t","o","-","o","n","e">>
sColor == <<"C","o","l","o","r">>
sRed == <<"R","E","D">>
sMapstruct == <<"m","a","p","s","t","r","u","c","t">>
sShop == <<"s","h","o","p">>

\* const USER = 'User'
USER == sUser

\* core/jhipster/application_types
MICROSERVICE == "microservice"
MONOLITH == "monolith"

\* core/jhipster/binary_options Options, in declaration order
BinaryOptionNames == <<"dto", "microservice", "clientRootFolder">>
CLIENT_ROOT_FOLDER == "clientRootFolder"


\* core/jhipster/unary_options
SKIP_CLIENT == "skipClient"
SKIP_SERVER == "skipServer"
NO_FLUENT_METHOD == "noFluentMethod"
FILTER == "filter"

\* The wildcard marker of an application's entity list.
sStar == <<"*">>

\* ------------------------------------------------------------------------
\* The domain object graph (core/jdl_*.js): constructors and the container
\* ------------------------------------------------------------------------

\* new JDLObject()
JDLObject ==
  [applications |-> EmptyObject, enums |-> EmptyObject, entities |-> EmptyObject,
   relationships |-> <<>>, options |-> <<>>]

\* The list without repeated elements, first occurrences kept in order.
RECURSIVE Dedup(_)
Dedup(list) ==
  IF list = <<>> THEN <<>>
  ELSE LET init == Dedup(SubSeq(list, 1, Len(list) - 1))
           last == list[Len(list)]
       IN IF Includes(init, last) THEN init ELSE Append(init, last)

JDLApplication(args) == [config |-> args.config, entities |-> Dedup(args.entities)]
JDLEnum(args) == [name |-> args.name, values |-> args.values, comment |-> args.comment]
JDLEntity(args) ==
  [name |-> args.name, tableName |-> args.tableName, fields |-> args.fields,
   comment |-> args.comment]
JDLField(args) ==
  [name |-> args.name, type |-> args.type, validations |-> args.validations,
   comment |-> undefined]
JDLValidation(args) == [name |-> args.name, value |-> args.value]
JDLRelationship(args) == args
JDLUnaryOption(args) ==
  [name |-> args.name, entityNames |-> args.entityNames,
   excludedNames |-> args.excludedNames]
JDLBinaryOption(args) ==
  [name |-> args.name, value |-> args.value, entityNames |-> args.entityNames,
   excludedNames |-> args.excludedNames]

addApplication(jdl, application) ==
  [jdl EXCEPT !.applications = Put(@, application.config.baseName, application)]
addEnum(jdl, enum) == [jdl EXCEPT !.enums = Put(@, enum.name, enum)]
addEntity(jdl, entity) == [jdl EXCEPT !.entities = Put(@, entity.name, entity)]
addRelationship(jdl, relationship) ==
  [jdl EXCEPT !.relationships = Append(@, relationship)]
addOption(jdl, option) == [jdl EXCEPT !.options = Append(@, option)]

\* A reference to the entity stored under a name: the name it is stored under,
\* or undefined when the graph has no such entity.
EntityRef(jdl, name) == IF name \in DOMAIN jdl.entities THEN name ELSE undefined

\* ------------------------------------------------------------------------
\* The assembler's steps, as functions of the working state
\*   W = [configuration, docs, jdlObject, applicationsPerEntityName]
\* where docs is the heap of document objects and configuration.document is
\* a reference into it.
\* ------------------------------------------------------------------------
Document(W) == W.docs[W.configuration.document]

EntityNames(document) ==
  [i \in 1..Len(document.entities) |-> document.entities[i].name]

getApplicationEntitiesKeepingExcluded(W, application) ==
  IF Includes(application.entities.entityList, sStar)
    THEN EntityNames(Document(W)) ELSE application.entities.entityList
getApplicationEntities(W, application) ==
  LET entityList == application.entities.entityList
      excluded == application.entities.excluded
      applicationEntities ==
        IF Includes(entityList, sStar) THEN EntityNames(Document(W)) ELSE entityList
  IN IF Len(excluded) # 0
       THEN SelectSeq(applicationEntities, LAMBDA entity : ~Includes(excluded, entity))
       ELSE applicationEntities

RECURSIVE fillApplicationsPerEntityNameFrom(_, _, _)
fillApplicationsPerEntityNameFrom(index, application, k) ==
  IF k > Len(application.entities) THEN index
  ELSE LET entity == application.entities[k]
           owners == IF entity \in DOMAIN index THEN index[entity] ELSE <<>>
       IN fillApplicationsPerEntityNameFrom(
            Put(index, entity, Append(owners, application)), application, k + 1)
fillApplicationsPerEntityName(index, application) ==
  fillApplicationsPerEntityNameFrom(index, application, 1)

RECURSIVE fillApplicationsFrom(_, _)
fillApplicationsFrom(W, k) ==
  IF k > Len(Document(W).applications) THEN W
  ELSE LET d == W.configuration.document
           declared == Document(W).applications[k]
           application ==
             IF Truthy(W.configuration.generatorVersion)
               THEN [declared EXCEPT !.config.jhipsterVersion = W.configuration.generatorVersion]
               ELSE declared
           W1 == [W EXCEPT !.docs[d].applications[k] = application]
           jdlApplication ==
             JDLApplication([config |-> application.config,
                             entities |-> getApplicationEntities(W1, application)])
       IN fillApplicationsFrom(
            [W1 EXCEPT !.jdlObject = addApplication(@, jdlApplication),
                       !.applicationsPerEntityName =
                          fillApplicationsPerEntityName(@, jdlApplication)],
            k + 1)
fillApplications(W) == fillApplicationsFrom(W, 1)

RECURSIVE fillEnumsFrom(_, _)
fillEnumsFrom(W, i) ==
  IF i > Len(Document(W).enums) THEN W
  ELSE LET enumObj == Document(W).enums[i]
       IN fillEnumsFrom(
            [W EXCEPT !.jdlObject =
               addEnum(@, JDLEnum([name |-> enumObj.name, values |-> enumObj.values,
                                   comment |-> formatComment(enumObj.javadoc)]))],
            i + 1)
fillEnums(W) == fillEnumsFrom(W, 1)

\* getValidations: the validations of a field, and the field as the loop
\* leaves it (a validation flagged constant has its value overwritten by the
\* constant's value, in the document).
RECURSIVE getValidationsFrom(_, _, _, _)
getValidationsFrom(constants, field, i, validations) ==
  IF i > Len(field.validations) THEN [validations |-> validations, field |-> field]
  ELSE LET declared == field.validations[i]
           validation ==
             IF declared.constant
               THEN [declared EXCEPT !.value = Get(constants, declared.value)]
               ELSE declared
       IN getValidationsFrom(
            constants,
            [field EXCEPT !.validations[i] = validation],
            i + 1,
            Put(validations, validation.key,
                JDLValidation([name |-> validation.key, value |-> validation.value])))
getValidations(constants, field) == getValidationsFrom(constants, field, 1, EmptyObject)

\* The test of getFields that skips a field: its lower-first name is id in
\* any letter case.
IsIdFieldCaseSensitive(fieldName) == fieldName = sId
IsIdField(fieldName) == toLowerCase(fieldName) = sId

\* getFields: the field mapping of an entity, and the entity as the loop
\* leaves it.
RECURSIVE getFieldsFrom(_, _, _, _)
getFieldsFrom(constants, entity, i, fields) ==
  IF i > Len(entity.body) THEN [fields |-> fields, entity |-> entity]
  ELSE LET field == entity.body[i]
           fieldName == lowerFirst(field.name)
       IN IF IsIdField(fieldName)
            THEN getFieldsFrom(constants, entity, i + 1, fields)
            ELSE LET got == getValidations(constants, field)
                     created == JDLField([name |-> fieldName, type |-> field.type,
                                          validations |-> got.validations])
                     fieldObject ==
                       IF Truthy(field.javadoc)
                         THEN [created EXCEPT !.comment = formatComment(field.javadoc)]
                         ELSE created
                 IN getFieldsFrom(constants, [entity EXCEPT !.body[i] = got.field],
                                  i + 1, Put(fields, fieldName, fieldObject))
getFields(constants, entity) == getFieldsFrom(constants, entity, 1, EmptyObject)

fillClassAndItsFields(W, i) ==
  LET d == W.configuration.document
      declared == Document(W).entities[i]
      entity == [declared EXCEPT
                   !.tableName = IF Truthy(@) THEN @ ELSE declared.name]
      got == getFields(Document(W).constants, entity)
  IN [W EXCEPT
        !.docs[d].entities[i] = got.entity,
        !.jdlObject =
           addEntity(@, JDLEntity([name |-> entity.name, tableName |-> entity.tableName,
                                   fields |-> got.fields,
                                   comment |-> formatComment(entity.javadoc)]))]

getUserRelationships(W) ==
  SelectSeq(Document(W).relationships,
            LAMBDA val : toLowerCase(val.to.name) = toLowerCase(USER))

addUserEntity(W) ==
  [W EXCEPT !.jdlObject =
     addEntity(@, JDLEntity([name |-> USER, tableName |-> sJhiUser,
                             fields |-> EmptyObject, comment |-> undefined]))]

\* The condition of addUserEntityIfNeedBe.
NeedsUserEntityUnchecked(W) == Len(getUserRelationships(W)) # 0
NeedsUserEntity(W) ==
  Len(getUserRelationships(W)) # 0 /\ USER \notin DOMAIN W.jdlObject.entities

addUserEntityIfNeedBe(W) == IF NeedsUserEntity(W) THEN addUserEntity(W) ELSE W

RECURSIVE fillClassesAndFieldsFrom(_, _)
fillClassesAndFieldsFrom(W, i) ==
  IF i > Len(Document(W).entities) THEN W
  ELSE fillClassesAndFieldsFrom(fillClassAndItsFields(W, i), i + 1)
fillClassesAndFields(W) == addUserEntityIfNeedBe(fillClassesAndFieldsFrom(W, 1))

RECURSIVE fillAssociationsFrom(_, _)
fillAssociationsFrom(W, i) ==
  IF i > Len(Document(W).relationships) THEN W
  ELSE LET d == W.configuration.document
           declared == Document(W).relationships[i]
           relationship ==
             IF ~Truthy(declared.from.injectedfield) /\ ~Truthy(declared.to.injectedfield)
               THEN [declared EXCEPT !.from.injectedfield = lowerFirst(declared.from.name)]
               ELSE declared
       IN fillAssociationsFrom(
            [W EXCEPT
               !.docs[d].relationships[i] = relationship,
               !.jdlObject =
                  addRelationship(@, JDLRelationship(
                    [from |-> EntityRef(W.jdlObject, relationship.from.name),
                     to |-> EntityRef(W.jdlObject, relationship.to.name),
                     type |-> upperFirst(camelCase(relationship.cardinality)),
                     injectedFieldInFrom |-> relationship.from.injectedfield,
                     injectedFieldInTo |-> relationship.to.injectedfield,
                     isInjectedFieldInFromRequired |-> relationship.from.required,
                     isInjectedFieldInToRequired |-> relationship.to.required,
                     commentInFrom |-> formatComment(relationship.from.javadoc),
                     commentInTo |-> formatComment(relationship.to.javadoc)]))],
            i + 1)
fillAssociations(W) == fillAssociationsFrom(W, 1)

\* One of the four blocks of fillUnaryOptions.
addUnaryOption(W, name, declared) ==
  IF Len(declared.list) # 0
    THEN [W EXCEPT !.jdlObject =
            addOption(@, JDLUnaryOption([name |-> name, entityNames |-> declared.list,
                                         excludedNames |-> declared.excluded]))]
    ELSE W

fillUnaryOptions(W) ==
  LET W1 == addUnaryOption(W, SKIP_CLIENT, Document(W).noClient)
      W2 == addUnaryOption(W1, SKIP_SERVER, Document(W).noServer)
      W3 == addUnaryOption(W2, NO_FLUENT_METHOD, Document(W).noFluentMethod)
  IN addUnaryOption(W3, FILTER, Document(W).filter)

\* document[key] is an object whose keys are the option's values, kept here in
\* insertion order as a list of [value, list, excluded].
addBinaryOption(W, key, entry) ==
  [W EXCEPT !.jdlObject =
     addOption(@, JDLBinaryOption([name |-> key, value |-> entry.value,
                                   entityNames |-> entry.list,
                                   excludedNames |-> entry.excluded]))]

RECURSIVE fillBinaryOptionFrom(_, _, _)
fillBinaryOptionFrom(W, optionValue, j) ==
  IF j > Len(Document(W)[optionValue]) THEN W
  ELSE IF W.configuration.applicationType = MICROSERVICE /\ optionValue = CLIENT_ROOT_FOLDER
    THEN fillBinaryOptionFrom(W, optionValue, j + 1)
    ELSE fillBinaryOptionFrom(addBinaryOption(W, optionValue, Document(W)[optionValue][j]),
                              optionValue, j + 1)

RECURSIVE fillBinaryOptionsFrom(_, _)
fillBinaryOptionsFrom(W, o) ==
  IF o > Len(BinaryOptionNames) THEN W
  ELSE fillBinaryOptionsFrom(fillBinaryOptionFrom(W, BinaryOptionNames[o], 1), o + 1)
fillBinaryOptions(W) == fillBinaryOptionsFrom(W, 1)

globallyAddMicroserviceOption(W, applicationName) ==
  [W EXCEPT !.jdlObject =
     addOption(@, JDLBinaryOption([name |-> MICROSERVICE, value |-> applicationName,
                                   entityNames |-> EntityNames(Document(W)),
                                   excludedNames |-> <<>>]))]

\* The condition under which fillOptions adds the global microservice option.
IsGlobalMicroserviceAnyMapping(W) == W.configuration.applicationType = MICROSERVICE
IsGlobalMicroservice(W) ==
  /\ W.configuration.applicationType = MICROSERVICE
  /\ Len(Document(W).microservice) = 0

fillOptions(W) ==
  LET W1 == fillBinaryOptions(fillUnaryOptions(W))
  IN IF IsGlobalMicroservice(W1)
       THEN globallyAddMicroserviceOption(W1, W1.configuration.applicationName)
       ELSE W1

\* init
init(W, passedConfiguration) ==
  [W EXCEPT !.configuration = passedConfiguration,
            !.jdlObject = JDLObject,
            !.applicationsPerEntityName = EmptyObject]

\* ------------------------------------------------------------------------
\* Documents the assembler is run on
\* ------------------------------------------------------------------------
Validation(key, value, constant) == [key |-> key, value |-> value, constant |-> constant]
Field(name, type, javadoc, validations) ==
  [name |-> name, type |-> type, javadoc |-> javadoc, validations |-> validations]
Entity(name, tableName, javadoc, body) ==
  [name |-> name, tableName |-> tableName, javadoc |-> javadoc, body |-> body]
Side(name, injectedfield, required) ==
  [name |-> name, injectedfield |-> injectedfield, required |-> required,
   javadoc |-> undefined]
Relationship(cardinality, from, to) ==
  [cardinality |-> cardinality, from |-> from, to |-> to]
OptionEntry(value, list, excluded) == [value |-> value, list |-> list, excluded |-> excluded]
Targets(list, excluded) == [list |-> list, excluded |-> excluded]
Application(baseName, version, entityList, excluded) ==
  [config |-> [baseName |-> baseName, jhipsterVersion |-> version],
   entities |-> [entityList |-> entityList, excluded |-> excluded]]

EntityA ==
  Entity(sA, undefined, sDoc,
         <<Field(sId, "Long", undefined, <<Validation("required", undefined, FALSE)>>),
           Field(sFirstName, "String", sDoc,
                 <<Validation("maxlength", sMaxLen, TRUE),
                   Validation("required", undefined, FALSE)>>)>>)
EntityALiteral ==
  Entity(sA, undefined, undefined,
         <<Field(sFirstName, "String", undefined, <<Validation("maxlength", sTwo, FALSE)>>),
           Field(sIdMixed, "Long", undefined, <<>>)>>)
EntityB ==
  Entity(sB, sBTab, undefined,
         <<Field(sEmail, "String", undefined, <<Validation("minlength", sTwo, FALSE)>>),
           Field(sIdUpper, "Color", undefined, <<Validation("min", sMaxLen, TRUE)>>),
           Field(sEmailLower, "String", undefined, <<>>)>>)
EntityUser ==
  Entity(sUser, sMyUser, undefined, <<Field(sLogin, "String", undefined, <<>>)>>)

EntitiesChoices ==
  { <<EntityA, EntityB>>, <<EntityALiteral, EntityB>>, <<EntityA, EntityUser>> }

RelationshipsChoices ==
  { <<Relationship(sOneToMany, Side(sA, undefined, undefined), Side(sB, undefined, TRUE)),
      Relationship(sManyToOne, Side(sA, sItems, TRUE), Side(sB, sOwner, undefined))>>,
    <<Relationship(sManyToOne, Side(sA, sOwner, undefined), Side(sUser, undefined, undefined)),
      Relationship(sOneToMany, Side(sB, undefined, undefined), Side(sA, sItems, undefined))>>,
    <<Relationship(sManyToOne, Side(sA, undefined, undefined), Side(sUserLower, undefined, undefined))>>,
    <<Relationship(sManyToOne, Side(sA, undefined, undefined), Side(sUser, undefined, undefined))>> }

NoTargets == Targets(<<>>, <<>>)
NoOptions ==
  [noClient |-> NoTargets, noServer |-> NoTargets, noFluentMethod |-> NoTargets,
   filter |-> NoTargets, dto |-> <<>>, microservice |-> <<>>, clientRootFolder |-> <<>>]
SomeOptions ==
  [noClient |-> Targets(<<sA>>, <<>>), noServer |-> Targets(<<sB>>, <<>>),
   noFluentMethod |-> Targets(<<sStar>>, <<sB>>), filter |-> NoTargets,
   dto |-> <<OptionEntry(sMapstruct, <<sA>>, <<>>)>>,
   microservice |-> <<OptionEntry(sStore, <<sA>>, <<>>), OptionEntry(sShop, <<sStar>>, <<sA>>)>>,
   clientRootFolder |-> <<OptionEntry(sShop, <<sA>>, <<>>)>>]

SomeApplications ==
  <<Application(sInvoicing, sOldVersion, <<sStar>>, <<sA>>),
    Application(sStore, undefined, <<sA, sB>>, <<>>),
    Application(sShop, undefined, <<sB, sA, sUser>>, <<sA>>)>>

\* A document's applications and options: none of either, or some of both.
ApplicationsAndOptionsChoices ==
  { [applications |-> <<>>, options |-> NoOptions],
    [applications |-> SomeApplications, options |-> SomeOptions] }

MakeDocument(applications, entities, relationships, options) ==
  [applications |-> applications,
   enums |-> <<[name |-> sColor, values |-> <<sRed>>, javadoc |-> sDoc]>>,
   entities |-> entities,
   relationships |-> relationships,
   constants |-> (sMaxLen :> sFifty),
   noClient |-> options.noClient, noServer |-> options.noServer,
   noFluentMethod |-> options.noFluentMethod, filter |-> options.filter,
   dto |-> options.dto, microservice |-> options.microservice,
   clientRootFolder |-> options.clientRootFolder]

\* The documents the first document object is drawn from.
Documents ==
  { MakeDocument(ao.applications, e, r, ao.options) :
      ao \in ApplicationsAndOptionsChoices, e \in EntitiesChoices,
      r \in RelationshipsChoices }

\* The second document object.
OtherDocument ==
  MakeDocument(<<>>, <<EntityB>>,
               <<Relationship(sOneToMany, Side(sB, undefined, undefined),
                              Side(sB, undefined, undefined))>>,
               NoOptions)

\* The configuration objects a call passes: document is a reference to a
\* document object, 0 when the key is missing.
Configuration(document, applicationType, generatorVersion) ==
  [document |-> document, applicationType |-> applicationType,
   applicationName |-> sInvoicing, generatorVersion |-> generatorVersion]
Configurations ==
  << Configuration(1, MONOLITH, undefined),
     Configuration(1, MICROSERVICE, sVersion),
     Configuration(2, MICROSERVICE, undefined),
     Configuration(0, MONOLITH, undefined) >>

\* Number of calls of parseFromConfigurationObject a behaviour issues.
NumCalls == 2
Calls == 1..NumCalls

\* ------------------------------------------------------------------------
\* State
\* ------------------------------------------------------------------------
VARIABLES
  docs,                       \* the document objects, by reference
  configuration,              \* let configuration (module level)
  jdlObject,                  \* let jdlObject (module level)
  applicationsPerEntityName,  \* let applicationsPerEntityName (module level)
  running,                    \* the call on the JavaScript stack, 0 when none
  pc,                         \* pc[i]: where call i is in parseFromConfigurationObject
  passed,                     \* passed[i]: the configuration object call i passes
  input,                      \* input[i]: the document as call i's init found it
  result,                     \* result[i]: the graph call i returned
  tokens,                     \* const tokens = {} of lexer.js, keys in insertion order
  JDLLexer,                   \* the definition JDLLexer was constructed with
  lexpc,                      \* where lexer.js is: loading, constructing, tokenizing
  text,                       \* the text being tokenized
  offset,                     \* the tokenizer's position in the text (from 1)
  emitted,                    \* the tokens of the result so far
  errors                      \* the offsets at which no token type matched

asmVars == <<docs, configuration, jdlObject, applicationsPerEntityName,
             running, pc, passed, input, result>>
lexVars == <<tokens, JDLLexer, lexpc, text, offset, emitted, errors>>
vars == <<asmVars, lexVars>>

\* lexer.js before its first statement runs.
LexerNotLoaded ==
  /\ tokens = <<>>
  /\ JDLLexer = <<>>
  /\ lexpc = "load"
  /\ text = <<>>
  /\ offset = 1
  /\ emitted = <<>>
  /\ errors = {}

\* The module-level working state and the documents, as one value.
Working ==
  [configuration |-> configuration, docs |-> docs, jdlObject |-> jdlObject,
   applicationsPerEntityName |-> applicationsPerEntityName]

Becomes(W) ==
  /\ configuration' = W.configuration
  /\ docs' = W.docs
  /\ jdlObject' = W.jdlObject
  /\ applicationsPerEntityName' = W.applicationsPerEntityName

InFlight == {"init", "fillApplications", "fillEnums", "fillClassesAndFields",
             "fillAssociations", "fillOptions", "return"}

\* parseFromConfigurationObject is synchronous: a call starts only when no
\* other call is on the stack, and runs to its return.
StackFreeAlways == TRUE
StackFree == running = 0

Init ==
  /\ LexerNotLoaded
  /\ \E d \in Documents : docs = <<d, OtherDocument>>
  /\ \E choice \in [Calls -> DOMAIN Configurations] :
       /\ \A i, j \in Calls : i <= j => choice[i] <= choice[j]
       /\ passed = [i \in Calls |-> Configurations[choice[i]]]
  /\ configuration = undefined
  /\ jdlObject = undefined
  /\ applicationsPerEntityName = undefined
  /\ running = 0
  /\ pc = [i \in Calls |-> "idle"]
  /\ input = [i \in Calls |-> undefined]
  /\ result = [i \in Calls |-> undefined]

\* parseFromConfigurationObject(configuration) without a document: throws.
CallWithoutDocument(i) ==
  /\ pc[i] = "idle"
  /\ StackFree
  /\ passed[i].document = 0
  /\ pc' = [pc EXCEPT ![i] = "thrown"]
  /\ UNCHANGED lexVars
  /\ UNCHANGED <<docs, configuration, jdlObject, applicationsPerEntityName,
                 running, passed, input, result>>

\* parseFromConfigurationObject(configuration) with a document: enters.
Call(i) ==
  /\ pc[i] = "idle"
  /\ StackFree
  /\ passed[i].document # 0
  /\ running' = i
  /\ pc' = [pc EXCEPT ![i] = "init"]
  /\ UNCHANGED lexVars
  /\ UNCHANGED <<docs, configuration, jdlObject, applicationsPerEntityName,
                 passed, input, result>>

DoInit(i) ==
  /\ pc[i] = "init"
  /\ Becomes(init(Working, passed[i]))
  /\ input' = [input EXCEPT ![i] = docs[passed[i].document]]
  /\ pc' = [pc EXCEPT ![i] = "fillApplications"]
  /\ UNCHANGED lexVars
  /\ UNCHANGED <<running, passed, result>>

DoFillApplications(i) ==
  /\ pc[i] = "fillApplications"
  /\ Becomes(fillApplications(Working))
  /\ pc' = [pc EXCEPT ![i] = "fillEnums"]
  /\ UNCHANGED lexVars
  /\ UNCHANGED <<running, passed, input, result>>

DoFillEnums(i) ==
  /\ pc[i] = "fillEnums"
  /\ Becomes(fillEnums(Working))
  /\ pc' = [pc EXCEPT ![i] = "fillClassesAndFields"]
  /\ UNCHANGED lexVars
  /\ UNCHANGED <<running, passed, input, result>>

DoFillClassesAndFields(i) ==
  /\ pc[i] = "fillClassesAndFields"
  /\ Becomes(fillClassesAndFields(Working))
  /\ pc' = [pc EXCEPT ![i] = "fillAssociations"]
  /\ UNCHANGED lexVars
  /\ UNCHANGED <<running, passed, input, result>>

DoFillAssociations(i) ==
  /\ pc[i] = "fillAssociations"
  /\ Becomes(fillAssociations(Working))
  /\ pc' = [pc EXCEPT ![i] = "fillOptions"]
  /\ UNCHANGED lexVars
  /\ UNCHANGED <<running, passed, input, result>>

DoFillOptions(i) ==
  /\ pc[i] = "fillOptions"
  /\ Becomes(fillOptions(Working))
  /\ pc' = [pc EXCEPT ![i] = "return"]
  /\ UNCHANGED lexVars
  /\ UNCHANGED <<running, passed, input, result>>

\* return jdlObject
Return(i) ==
  /\ pc[i] = "return"
  /\ result' = [result EXCEPT ![i] = jdlObject]
  /\ pc' = [pc EXCEPT ![i] = "done"]
  /\ running' = 0
  /\ UNCHANGED lexVars
  /\ UNCHANGED <<docs, configuration, jdlObject, applicationsPerEntityName,
                 passed, input>>

Next ==
  \E i \in Calls :
    \/ CallWithoutDocument(i)
    \/ Call(i)
    \/ DoInit(i)
    \/ DoFillApplications(i)
    \/ DoFillEnums(i)
    \/ DoFillClassesAndFields(i)
    \/ DoFillAssociations(i)
    \/ DoFillOptions(i)
    \/ Return(i)

Spec == Init /\ [][Next]_vars

\* ------------------------------------------------------------------------
\* Properties of the assembler
\* ------------------------------------------------------------------------
Done(i) == pc[i] = "done"

NeitherSideDeclares(relationship) ==
  ~Truthy(relationship.from.injectedfield) /\ ~Truthy(relationship.to.injectedfield)

\* C1: in every returned graph, a relationship neither side of which declares
\* an injected-field name has the lower-first name of its TO entity as its
\* from-side injected-field name and no to-side name; a relationship with a
\* declared name on either side stores both names as given.
C1_FromFieldDefaultsToTargetName ==
  \A i \in Calls : Done(i) =>
    /\ Len(result[i].relationships) = Len(input[i].relationships)
    /\ \A k \in 1..Len(input[i].relationships) :
         LET declared == input[i].relationships[k]
             assembled == result[i].relationships[k]
         IN IF NeitherSideDeclares(declared)
              THEN /\ assembled.injectedFieldInFrom = lowerFirst(declared.to.name)
                   /\ ~Truthy(assembled.injectedFieldInTo)
              ELSE /\ assembled.injectedFieldInFrom = declared.from.injectedfield
                   /\ assembled.injectedFieldInTo = declared.to.injectedfield

\* C2: two calls that pass the same document object and the same parameters
\* return structurally equal graphs.
C2_AssemblingTwiceGivesEqualGraphs ==
  \A i, j \in Calls : (Done(i) /\ Done(j) /\ passed[i] = passed[j]) => result[i] = result[j]

\* The graph one assembly yields from a document and a configuration, run on
\* working state of its own.
Assemble(document, passedConfiguration) ==
  LET W0 == [configuration |-> undefined, docs |-> <<document>>,
             jdlObject |-> undefined, applicationsPerEntityName |-> undefined]
      W1 == init(W0, [passedConfiguration EXCEPT !.document = 1])
  IN fillOptions(fillAssociations(fillClassesAndFields(fillEnums(fillApplications(W1))))).jdlObject

\* C3: at most one call is in flight at a time, and every call returns the
\* graph derived from its own document and parameters.
C3_CallsNeverInterleave ==
  /\ Cardinality({i \in Calls : pc[i] \in InFlight}) <= 1
  /\ \A i \in Calls : pc[i] \in InFlight => running = i
  /\ \A i \in Calls : Done(i) => result[i] = Assemble(input[i], passed[i])

C3_Witness ==
  \E i, j \in Calls :
    /\ Done(i) /\ Done(j)
    /\ passed[i].document # passed[j].document
    /\ result[i] # result[j]

TargetsUser(document) ==
  \E k \in 1..Len(document.relationships) :
    toLowerCase(document.relationships[k].to.name) = sUserLower

DeclaresUser(document) ==
  \E k \in 1..Len(document.entities) : document.entities[k].name = sUser

SynthesizedUser ==
  [name |-> sUser, tableName |-> sJhiUser, fields |-> EmptyObject, comment |-> undefined]

\* The keys a declared entity's field mapping is to have.
ExpectedFieldNames(entity) ==
  { lowerFirst(entity.body[k].name) :
      k \in { n \in 1..Len(entity.body) :
                toLowerCase(lowerFirst(entity.body[n].name)) # sId } }

\* C4: the returned graph has the synthesized User entity (table jhi_user, no
\* fields) exactly when a relationship targets User in any letter case and no
\* entity named exactly User is declared; a declared User keeps its own table
\* name and fields.
C4_UserSynthesizedIffTargetedAndUndeclared ==
  \A i \in Calls : Done(i) =>
    LET document == input[i]
        entities == result[i].entities
    IN /\ (TargetsUser(document) /\ ~DeclaresUser(document)) =>
            (sUser \in DOMAIN entities /\ entities[sUser] = SynthesizedUser)
       /\ (~TargetsUser(document) /\ ~DeclaresUser(document)) =>
            sUser \notin DOMAIN entities
       /\ \A k \in 1..Len(document.entities) :
            document.entities[k].name = sUser =>
              /\ sUser \in DOMAIN entities
              /\ entities[sUser].tableName =
                   (IF Truthy(document.entities[k].tableName)
                      THEN document.entities[k].tableName ELSE sUser)
              /\ DOMAIN entities[sUser].fields = ExpectedFieldNames(document.entities[k])

C4_Witness ==
  \E i \in Calls :
    /\ Done(i)
    /\ TargetsUser(input[i]) /\ ~DeclaresUser(input[i])
    /\ sUser \in DOMAIN result[i].entities
    /\ result[i].entities[sUser] = SynthesizedUser

\* The documents C5 is about: every from name is declared, every to name is
\* declared or is User in some letter case.
EndpointsResolvable(document) ==
  LET declared == { document.entities[k].name : k \in 1..Len(document.entities) }
  IN \A k \in 1..Len(document.relationships) :
       /\ document.relationships[k].from.name \in declared
       /\ \/ document.relationships[k].to.name \in declared
          \/ toLowerCase(document.relationships[k].to.name) = sUserLower

\* C5: in every returned graph, both endpoints of every relationship are
\* entities of the graph, for every document whose from names are declared
\* and whose to names are declared or User in any letter case.
C5_EndpointsAreEntitiesOfTheGraph ==
  \A i \in Calls : (Done(i) /\ EndpointsResolvable(input[i])) =>
    \A k \in 1..Len(result[i].relationships) :
      /\ result[i].relationships[k].from \in DOMAIN result[i].entities
      /\ result[i].relationships[k].to \in DOMAIN result[i].entities

\* C9: for every declared entity, the keys of its assembled field mapping are
\* exactly the lower-first forms of the declared field names other than id
\* (in any letter case), and each stored field's name is its key.
C9_FieldKeysAreLowerFirstNamesWithoutId ==
  \A i \in Calls : Done(i) =>
    \A k \in 1..Len(input[i].entities) :
      LET declared == input[i].entities[k]
          fields == result[i].entities[declared.name].fields
      IN /\ DOMAIN fields = ExpectedFieldNames(declared)
         /\ \A key \in DOMAIN fields :
              fields[key].name = key /\ toLowerCase(key) # sId

C9_Witness ==
  \E i \in Calls :
    /\ Done(i)
    /\ \E k \in 1..Len(input[i].entities) :
         /\ input[i].entities[k] = EntityB
         /\ DOMAIN result[i].entities[sB].fields = {sEmailLower}
    /\ \E k \in 1..Len(input[i].entities) :
         /\ input[i].entities[k].name = sA
         /\ DOMAIN result[i].entities[sA].fields = {sFirstName}

MicroserviceOptions(graph) ==
  SelectSeq(graph.options, LAMBDA option : option.name = MICROSERVICE)

\* C10: with application type microservice and an empty document.microservice,
\* the returned graph has exactly one microservice option, whose value is the
\* application name and whose targets are the declared entity names in
\* order; otherwise its microservice options are one per entry of
\* document.microservice.
C10_GlobalMicroserviceOption ==
  \A i \in Calls : Done(i) =>
    LET options == MicroserviceOptions(result[i])
        declared == input[i].microservice
    IN IF passed[i].applicationType = MICROSERVICE /\ Len(declared) = 0
         THEN options = <<[name |-> MICROSERVICE, value |-> passed[i].applicationName,
                           entityNames |-> EntityNames(input[i]),
                           excludedNames |-> <<>>]>>
         ELSE /\ Len(options) = Len(declared)
              /\ \A j \in 1..Len(declared) :
                   options[j] = [name |-> MICROSERVICE, value |-> declared[j].value,
                                 entityNames |-> declared[j].list,
                                 excludedNames |-> declared[j].excluded]

C10_Witness ==
  \E i \in Calls :
    /\ Done(i)
    /\ passed[i].applicationType = MICROSERVICE /\ Len(input[i].microservice) = 0
    /\ Len(MicroserviceOptions(result[i])) = 1
    /\ MicroserviceOptions(result[i])[1].value = sInvoicing
    /\ Len(MicroserviceOptions(result[i])[1].entityNames) = 2

\* ------------------------------------------------------------------------
\* The token catalog (src/lib/dsl/lexer.js)
\* ------------------------------------------------------------------------

\* Token patterns: Lexer.NA, a literal string, or one of the file's regular
\* expressions (named after the token that carries it).
NA == [type |-> "NA", text |-> <<>>, re |-> ""]
Literal(literal) == [type |-> "string", text |-> literal, re |-> ""]
RegExp(re) == [type |-> "regexp", text |-> <<>>, re |-> re]

\* Lexer.SKIPPED
SKIPPED == <<"SKIPPED">>

\* A token type that declares no longer_alt.
noLongerAlt == ""

\* The object literal passed to createToken.
Config(name, pattern, group, categories) ==
  [name |-> name, pattern |-> pattern, group |-> group,
   longer_alt |-> noLongerAlt, categories |-> categories]

IsNameStart(c) == IsUpper(c) \/ IsLower(c) \/ c = "_"
IsNamePart(c) == IsNameStart(c) \/ c = "-" \/ c \in DigitChars

\* namePattern.test(literal): the pattern is not anchored, so the test
\* succeeds when some character of the literal can start a name.
namePatternTest(literal) == \E k \in 1..Len(literal) : IsNameStart(literal[k])

\* chevrotain.createToken: the token type of a configuration.
chevrotainCreateToken(config) ==
  [config EXCEPT !.categories = IF @ = undefined THEN <<>> ELSE @]

\* const NAME / const KEYWORD
NAME == chevrotainCreateToken(Config("NAME", RegExp("NAME"), undefined, undefined))
KEYWORD ==
  chevrotainCreateToken(
    [Config("KEYWORD", NA, undefined, <<"NAME">>) EXCEPT !.longer_alt = "NAME"])

\* createToken(config): the token type it creates.
createTokenReplacingCategories(config) ==
  LET isKeyword == config.pattern.type = "string" /\ namePatternTest(config.pattern.text)
      completed ==
        IF isKeyword
          THEN [config EXCEPT
                  !.longer_alt = "NAME",
                  !.categories = IF @ = undefined THEN <<"KEYWORD">> ELSE @]
          ELSE config
  IN chevrotainCreateToken(completed)
createToken(config) ==
  LET isKeyword == config.pattern.type = "string" /\ namePatternTest(config.pattern.text)
      completed ==
        IF isKeyword
          THEN [config EXCEPT
                  !.longer_alt = "NAME",
                  !.categories = IF @ = undefined THEN <<"KEYWORD">>
                                 ELSE Append(@, "KEYWORD")]
          ELSE config
  IN chevrotainCreateToken(completed)

\* The createToken calls of the file, in source order.
Declarations == <<
    Config("BOOLEAN", NA, undefined, undefined),
    Config("CONFIG_KEY", NA, undefined, undefined),
    Config("WHITESPACE", RegExp("WHITESPACE"), SKIPPED, undefined),
    Config("COMMENT", RegExp("COMMENT"), undefined, undefined),
    Config("CONFIG", Literal(<<"c","o","n","f","i","g">>), undefined, undefined),
    Config("ENTITIES", Literal(<<"e","n","t","i","t","i","e","s">>), undefined, undefined),
    Config("BASE_NAME", Literal(<<"b","a","s","e","N","a","m","e">>), undefined, <<"CONFIG_KEY">>),
    Config("PATH", Literal(<<"p","a","t","h">>), undefined, <<"CONFIG_KEY">>),
    Config("PACKAGE_NAME", Literal(<<"p","a","c","k","a","g","e","N","a","m","e">>), undefined, <<"CONFIG_KEY">>),
    Config("AUTHENTICATION_TYPE", Literal(<<"a","u","t","h","e","n","t","i","c","a","t","i","o","n","T","y","p","e">>), undefined, <<"CONFIG_KEY">>),
    Config("HIBERNATE_CACHE", Literal(<<"h","i","b","e","r","n","a","t","e","C","a","c","h","e">>), undefined, <<"CONFIG_KEY">>),
    Config("CLUSTERED_HTTP_SESSION", Literal(<<"c","l","u","s","t","e","r","e","d","H","t","t","p","S","e","s","s","i","o","n">>), undefined, <<"CONFIG_KEY">>),
    Config("WEBSOCKET", Literal(<<"w","e","b","s","o","c","k","e","t">>), undefined, <<"CONFIG_KEY">>),
    Config("DATABASE_TYPE", Literal(<<"d","a","t","a","b","a","s","e","T","y","p","e">>), undefined, <<"CONFIG_KEY">>),
    Config("DEV_DATABASE_TYPE", Literal(<<"d","e","v","D","a","t","a","b","a","s","e","T","y","p","e">>), undefined, <<"CONFIG_KEY">>),
    Config("PROD_DATABASE_TYPE", Literal(<<"p","r","o","d","D","a","t","a","b","a","s","e","T","y","p","e">>), undefined, <<"CONFIG_KEY">>),
    Config("USE_COMPASS", Literal(<<"u","s","e","C","o","m","p","a","s","s">>), undefined, <<"CONFIG_KEY">>),
    Config("BUILD_TOOL", Literal(<<"b","u","i","l","d","T","o","o","l">>), undefined, <<"CONFIG_KEY">>),
    Config("SEARCH_ENGINE", Literal(<<"s","e","a","r","c","h","E","n","g","i","n","e">>), undefined, <<"CONFIG_KEY">>),
    Config("ENABLE_TRANSLATION", Literal(<<"e","n","a","b","l","e","T","r","a","n","s","l","a","t","i","o","n">>), undefined, <<"CONFIG_KEY">>),
    Config("APPLICATION_TYPE", Literal(<<"a","p","p","l","i","c","a","t","i","o","n","T","y","p","e">>), undefined, <<"CONFIG_KEY">>),
    Config("APPLICATION", Literal(<<"a","p","p","l","i","c","a","t","i","o","n">>), undefined, undefined),
    Config("TEST_FRAMEWORK", Literal(<<"t","e","s","t","F","r","a","m","e","w","o","r","k","s">>), undefined, <<"CONFIG_KEY">>),
    Config("LANGUAGES", Literal(<<"l","a","n","g","u","a","g","e","s">>), undefined, <<"CONFIG_KEY">>),
    Config("SERVER_PORT", Literal(<<"s","e","r","v","e","r","P","o","r","t">>), undefined, <<"CONFIG_KEY">>),
    Config("ENABLE_SOCIAL_SIGN_IN", Literal(<<"e","n","a","b","l","e","S","o","c","i","a","l","S","i","g","n","I","n">>), undefined, <<"CONFIG_KEY">>),
    Config("USE_SASS", Literal(<<"u","s","e","S","a","s","s">>), undefined, <<"CONFIG_KEY">>),
    Config("JHI_PREFIX", Literal(<<"j","h","i","P","r","e","f","i","x">>), undefined, <<"CONFIG_KEY">>),
    Config("MESSAGE_BROKER", Literal(<<"m","e","s","s","a","g","e","B","r","o","k","e","r">>), undefined, <<"CONFIG_KEY">>),
    Config("SERVICE_DISCOVERY_TYPE", Literal(<<"s","e","r","v","i","c","e","D","i","s","c","o","v","e","r","y","T","y","p","e">>), undefined, <<"CONFIG_KEY">>),
    Config("CLIENT_PACKAGE_MANAGER", Literal(<<"c","l","i","e","n","t","P","a","c","k","a","g","e","M","a","n","a","g","e","r">>), undefined, <<"CONFIG_KEY">>),
    Config("CLIENT_FRAMEWORK", Literal(<<"c","l","i","e","n","t","F","r","a","m","e","w","o","r","k">>), undefined, <<"CONFIG_KEY">>),
    Config("CLIENT_ROOT_FOLDER", Literal(<<"c","l","i","e","n","t","R","o","o","t","F","o","l","d","e","r">>), undefined, undefined),
    Config("NATIVE_LANGUAGE", Literal(<<"n","a","t","i","v","e","L","a","n","g","u","a","g","e">>), undefined, <<"CONFIG_KEY">>),
    Config("FRONT_END_BUILDER", Literal(<<"f","r","o","n","t","e","n","d","B","u","i","l","d","e","r">>), undefined, <<"CONFIG_KEY">>),
    Config("SKIP_USER_MANAGEMENT", Literal(<<"s","k","i","p","U","s","e","r","M","a","n","a","g","e","m","e","n","t">>), undefined, <<"CONFIG_KEY">>),
    Config("ENABLE_SWAGGER_CODEGEN", Literal(<<"e","n","a","b","l","e","S","w","a","g","g","e","r","C","o","d","e","g","e","n">>), undefined, undefined),
    Config("TRUE", Literal(<<"t","r","u","e">>), undefined, <<"BOOLEAN">>),
    Config("FALSE", Literal(<<"f","a","l","s","e">>), undefined, <<"BOOLEAN">>),
    Config("ENTITY", Literal(<<"e","n","t","i","t","y">>), undefined, undefined),
    Config("RELATIONSHIP", Literal(<<"r","e","l","a","t","i","o","n","s","h","i","p">>), undefined, undefined),
    Config("ENUM", Literal(<<"e","n","u","m">>), undefined, undefined),
    Config("ONE_TO_ONE", Literal(<<"O","n","e","T","o","O","n","e">>), undefined, undefined),
    Config("ONE_TO_MANY", Literal(<<"O","n","e","T","o","M","a","n","y">>), undefined, undefined),
    Config("MANY_TO_ONE", Literal(<<"M","a","n","y","T","o","O","n","e">>), undefined, undefined),
    Config("MANY_TO_MANY", Literal(<<"M","a","n","y","T","o","M","a","n","y">>), undefined, undefined),
    Config("TO", Literal(<<"t","o">>), undefined, undefined),
    Config("ALL", Literal(<<"a","l","l">>), undefined, undefined),
    Config("STAR", Literal(<<"*">>), undefined, undefined),
    Config("WITH", Literal(<<"w","i","t","h">>), undefined, undefined),
    Config("EXCEPT", Literal(<<"e","x","c","e","p","t">>), undefined, undefined),
    Config("NO_FLUENT_METHOD", Literal(<<"n","o","F","l","u","e","n","t","M","e","t","h","o","d">>), undefined, undefined),
    Config("DTO", Literal(<<"d","t","o">>), undefined, undefined),
    Config("PAGINATE", Literal(<<"p","a","g","i","n","a","t","e">>), undefined, undefined),
    Config("SERVICE", Literal(<<"s","e","r","v","i","c","e">>), undefined, undefined),
    Config("MICROSERVICE", Literal(<<"m","i","c","r","o","s","e","r","v","i","c","e">>), undefined, undefined),
    Config("SEARCH", Literal(<<"s","e","a","r","c","h">>), undefined, undefined),
    Config("SKIP_CLIENT", Literal(<<"s","k","i","p","C","l","i","e","n","t">>), undefined, <<"CONFIG_KEY">>),
    Config("SKIP_SERVER", Literal(<<"s","k","i","p","S","e","r","v","e","r">>), undefined, <<"CONFIG_KEY">>),
    Config("ANGULAR_SUFFIX", Literal(<<"a","n","g","u","l","a","r","S","u","f","f","i","x">>), undefined, undefined),
    Config("FILTER", Literal(<<"f","i","l","t","e","r">>), undefined, undefined),
    Config("REQUIRED", Literal(<<"r","e","q","u","i","r","e","d">>), undefined, undefined),
    Config("MIN_MAX_KEYWORD", NA, undefined, <<"KEYWORD">>),
    Config("MINLENGTH", Literal(<<"m","i","n","l","e","n","g","t","h">>), undefined, <<"MIN_MAX_KEYWORD">>),
    Config("MAXLENGTH", Literal(<<"m","a","x","l","e","n","g","t","h">>), undefined, <<"MIN_MAX_KEYWORD">>),
    Config("MINBYTES", Literal(<<"m","i","n","b","y","t","e","s">>), undefined, <<"MIN_MAX_KEYWORD">>),
    Config("MAXBYTES", Literal(<<"m","a","x","b","y","t","e","s">>), undefined, <<"MIN_MAX_KEYWORD">>),
    Config("MAX", Literal(<<"m","a","x">>), undefined, <<"MIN_MAX_KEYWORD">>),
    Config("MIN", Literal(<<"m","i","n">>), undefined, <<"MIN_MAX_KEYWORD">>),
    Config("PATTERN", Literal(<<"p","a","t","t","e","r","n">>), undefined, undefined),
    Config("REGEX", RegExp("REGEX"), undefined, undefined),
    Config("INTEGER", RegExp("INTEGER"), undefined, undefined),
    Config("STRING", RegExp("STRING"), undefined, undefined),
    Config("LPAREN", Literal(<<"(">>), undefined, undefined),
    Config("RPAREN", Literal(<<")">>), undefined, undefined),
    Config("LCURLY", Literal(<<"{">>), undefined, undefined),
    Config("RCURLY", Literal(<<"}">>), undefined, undefined),
    Config("LSQUARE", Literal(<<"[">>), undefined, undefined),
    Config("RSQUARE", Literal(<<"]">>), undefined, undefined),
    Config("COMMA", Literal(<<",">>), undefined, undefined),
    Config("EQUALS", Literal(<<"=">>), undefined, undefined),
    Config("DOT", Literal(<<".">>), undefined, undefined) >>

\* tokens[name] = tokenType: tokens keeps its keys in insertion order.
SetToken(toks, tokenType) ==
  IF \E k \in 1..Len(toks) : toks[k].name = tokenType.name
    THEN [k \in 1..Len(toks) |->
            IF toks[k].name = tokenType.name THEN tokenType ELSE toks[k]]
    ELSE Append(toks, tokenType)

\* _.values(tokens)
ValuesNameFirst(toks) ==
  SelectSeq(toks, LAMBDA t : t.name = "NAME") \o SelectSeq(toks, LAMBDA t : t.name # "NAME")
Values(toks) == toks

\* ------------------------------------------------------------------------
\* Matching a pattern at an offset of the text: the length of the match, 0
\* when the pattern does not match there.
\* ------------------------------------------------------------------------
IsSpace(c) == c \in {" ", "\n", "\t", "\r"}

\* The length of the longest run of characters satisfying a test, from offset o.
RECURSIVE SpaceRun(_, _)
SpaceRun(s, o) == IF o <= Len(s) /\ IsSpace(s[o]) THEN 1 + SpaceRun(s, o + 1) ELSE 0
RECURSIVE DigitRun(_, _)
DigitRun(s, o) == IF o <= Len(s) /\ s[o] \in DigitChars THEN 1 + DigitRun(s, o + 1) ELSE 0
RECURSIVE NamePartRun(_, _)
NamePartRun(s, o) == IF o <= Len(s) /\ IsNamePart(s[o]) THEN 1 + NamePartRun(s, o + 1) ELSE 0

\* /\s+/
MatchWhitespace(s, o) == SpaceRun(s, o)

\* /\/\*([\s\S]*?)\*\//: from the opening to the first closing delimiter.
MatchComment(s, o) ==
  IF o + 1 <= Len(s) /\ s[o] = "/" /\ s[o + 1] = "*"
    THEN LET closings == { e \in (o + 2)..(Len(s) - 1) : s[e] = "*" /\ s[e + 1] = "/" }
         IN IF closings = {} THEN 0
            ELSE (CHOOSE e \in closings : \A f \in closings : e <= f) + 2 - o
    ELSE 0

\* /\/[^\n\r/]*\//
MatchRegex(s, o) ==
  IF s[o] = "/"
    THEN LET stops == { e \in (o + 1)..Len(s) : s[e] \in {"/", "\n", "\r"} }
         IN IF stops = {} THEN 0
            ELSE LET e == CHOOSE x \in stops : \A f \in stops : x <= f
                 IN IF s[e] = "/" THEN e + 1 - o ELSE 0
    ELSE 0

\* /-?\d+/
MatchInteger(s, o) ==
  IF s[o] = "-"
    THEN (IF DigitRun(s, o + 1) > 0 THEN 1 + DigitRun(s, o + 1) ELSE 0)
    ELSE DigitRun(s, o)

\* /"(?:[^"])*"/
MatchString(s, o) ==
  IF s[o] = "\""
    THEN LET closings == { e \in (o + 1)..Len(s) : s[e] = "\"" }
         IN IF closings = {} THEN 0
            ELSE (CHOOSE e \in closings : \A f \in closings : e <= f) + 1 - o
    ELSE 0

\* namePattern = /[a-zA-Z_][a-zA-Z_\-\d]*/
MatchName(s, o) == IF IsNameStart(s[o]) THEN 1 + NamePartRun(s, o + 1) ELSE 0

\* A literal string pattern.
MatchLiteral(literal, s, o) ==
  IF o + Len(literal) - 1 <= Len(s) /\ SubSeq(s, o, o + Len(literal) - 1) = literal
    THEN Len(literal) ELSE 0

MatchLen(pattern, s, o) ==
  CASE pattern.type = "NA" -> 0
    [] pattern.type = "string" -> MatchLiteral(pattern.text, s, o)
    [] pattern.re = "WHITESPACE" -> MatchWhitespace(s, o)
    [] pattern.re = "COMMENT" -> MatchComment(s, o)
    [] pattern.re = "REGEX" -> MatchRegex(s, o)
    [] pattern.re = "INTEGER" -> MatchInteger(s, o)
    [] pattern.re = "STRING" -> MatchString(s, o)
    [] pattern.re = "NAME" -> MatchName(s, o)

\* The token type of a name in a lexer definition.
TypeNamed(definition, name) ==
  definition[CHOOSE k \in 1..Len(definition) : definition[k].name = name]

\* One round of the Lexer's loop at offset o: the first token type of the
\* definition whose pattern matches, replaced by its longer_alt when that
\* matches a longer text. type is undefined when nothing matches.
MatchAt(definition, s, o) ==
  LET matching == { k \in 1..Len(definition) : MatchLen(definition[k].pattern, s, o) > 0 }
  IN IF matching = {} THEN [type |-> undefined, length |-> 0]
     ELSE LET first == definition[CHOOSE k \in matching : \A m \in matching : k <= m]
              length == MatchLen(first.pattern, s, o)
              alt == IF first.longer_alt = noLongerAlt THEN first
                     ELSE TypeNamed(definition, first.longer_alt)
              altLength == MatchLen(alt.pattern, s, o)
          IN IF first.longer_alt # noLongerAlt /\ altLength > length
               THEN [type |-> alt, length |-> altLength]
               ELSE [type |-> first, length |-> length]

\* ------------------------------------------------------------------------
\* Loading lexer.js and tokenizing
\* ------------------------------------------------------------------------

\* Texts given to the tokenizer besides the literal text of every token type.
SampleTexts ==
  { <<"a","p","p","l","i","c","a","t","i","o","n","T","y","p","e","s">>,
    <<"m","i","n","i","m","u","m">>,
    <<"t","o","-","d","o">>,
    <<"e","n","t","i","t","y"," ","A"," ","{","\n"," "," ","/","*"," ","t","h","e"," ","n","a","m","e"," ","*","/"," ","n","a","m","e"," ","S","t","r","i","n","g"," ","r","e","q","u","i","r","e","d"," ","m","i","n","l","e","n","g","t","h","(","2",")","\n","}">>,
    <<"/","*","*","/">>,
    <<"/","*"," ","a"," ","*","/"," ","/","*"," ","b"," ","*","/">>,
    <<"p","a","t","t","e","r","n","(","/","[","a","-","z","]","+","/",")"," ","m","a","x","(","-","1","2",")"," ","\"","a"," ","b","\"">>,
    <<"r","e","l","a","t","i","o","n","s","h","i","p"," ","O","n","e","T","o","M","a","n","y"," ","{"," ","A","{","i","t","e","m","s","}"," ","t","o"," ","B"," ","}">>,
    <<"a"," ","#"," ","b">>,
    <<"/","*"," ","o","p","e","n">> }

LiteralTexts ==
  { Declarations[k].pattern.text :
      k \in { n \in 1..Len(Declarations) : Declarations[n].pattern.type = "string" } }

Texts == LiteralTexts \cup SampleTexts

\* group: Lexer.SKIPPED keeps a matched token out of the result.
IsSkippedNever(tokenType) == FALSE
IsSkipped(tokenType) == tokenType.group = SKIPPED

\* The assembler's variables while only the lexer runs.
AssemblerIdle ==
  /\ docs = <<>>
  /\ configuration = undefined
  /\ jdlObject = undefined
  /\ applicationsPerEntityName = undefined
  /\ running = 0
  /\ pc = <<>>
  /\ passed = <<>>
  /\ input = <<>>
  /\ result = <<>>

LexInit == AssemblerIdle /\ LexerNotLoaded

\* The next createToken call of the file.
CreateToken ==
  /\ lexpc = "load"
  /\ Len(tokens) < Len(Declarations)
  /\ tokens' = SetToken(tokens, createToken(Declarations[Len(tokens) + 1]))
  /\ UNCHANGED <<JDLLexer, lexpc, text, offset, emitted, errors>>
  /\ UNCHANGED asmVars

\* tokens.NAME = NAME
AddName ==
  /\ lexpc = "load"
  /\ Len(tokens) = Len(Declarations)
  /\ tokens' = SetToken(tokens, NAME)
  /\ lexpc' = "construct"
  /\ UNCHANGED <<JDLLexer, text, offset, emitted, errors>>
  /\ UNCHANGED asmVars

\* const JDLLexer = new Lexer(_.values(tokens))
NewLexer ==
  /\ lexpc = "construct"
  /\ JDLLexer' = Values(tokens)
  /\ lexpc' = "ready"
  /\ UNCHANGED <<tokens, text, offset, emitted, errors>>
  /\ UNCHANGED asmVars

\* JDLLexer.tokenize(input): starts on a text.
Tokenize(input_text) ==
  /\ lexpc \in {"ready", "done"}
  /\ text' = input_text
  /\ offset' = 1
  /\ emitted' = <<>>
  /\ errors' = {}
  /\ lexpc' = "lexing"
  /\ UNCHANGED <<tokens, JDLLexer>>
  /\ UNCHANGED asmVars

\* One round of the tokenizer's loop where a token type matches.
LexToken ==
  /\ lexpc = "lexing"
  /\ offset <= Len(text)
  /\ LET matched == MatchAt(JDLLexer, text, offset)
     IN /\ matched.length > 0
        /\ emitted' =
             IF IsSkipped(matched.type) THEN emitted
             ELSE Append(emitted,
                         [tokenType |-> matched.type.name,
                          image |-> SubSeq(text, offset, offset + matched.length - 1),
                          startOffset |-> offset])
        /\ offset' = offset + matched.length
  /\ UNCHANGED <<tokens, JDLLexer, lexpc, text, errors>>
  /\ UNCHANGED asmVars

\* One round where no token type matches: a lexical error is recorded and the
\* character is dropped.
LexError ==
  /\ lexpc = "lexing"
  /\ offset <= Len(text)
  /\ MatchAt(JDLLexer, text, offset).length = 0
  /\ errors' = errors \cup {offset}
  /\ offset' = offset + 1
  /\ UNCHANGED <<tokens, JDLLexer, lexpc, text, emitted>>
  /\ UNCHANGED asmVars

\* The end of the text: tokenize returns its result.
LexReturn ==
  /\ lexpc = "lexing"
  /\ offset > Len(text)
  /\ lexpc' = "done"
  /\ UNCHANGED <<tokens, JDLLexer, text, offset, emitted, errors>>
  /\ UNCHANGED asmVars

LexNext ==
  \/ CreateToken
  \/ AddName
  \/ NewLexer
  \/ \E input_text \in Texts : Tokenize(input_text)
  \/ LexToken
  \/ LexError
  \/ LexReturn

LexSpec == LexInit /\ [][LexNext]_vars

\* ------------------------------------------------------------------------
\* Properties of the token catalog and the tokenizer
\* ------------------------------------------------------------------------
TokenizedWithoutError == lexpc = "done" /\ errors = {}

EmittedKinds == { emitted[k].tokenType : k \in 1..Len(emitted) }

\* C6 (as claimed): a text tokenized without a lexical error yields no token
\* of the whitespace kind and no token of the block-comment kind.
C6_NoWhitespaceNoCommentEmitted ==
  TokenizedWithoutError => EmittedKinds \cap {"WHITESPACE", "COMMENT"} = {}

\* C6 (amended): a text tokenized without a lexical error yields no token of
\* the whitespace kind, and whitespace is all the result leaves out: every
\* other character, those of block comments included, lies in an emitted
\* token, and a token that opens a block comment is of the COMMENT kind.
C6_OnlyWhitespaceIsSkipped ==
  TokenizedWithoutError =>
    /\ "WHITESPACE" \notin EmittedKinds
    /\ \A p \in 1..Len(text) :
         \/ IsSpace(text[p])
         \/ \E k \in 1..Len(emitted) :
              /\ emitted[k].startOffset <= p
              /\ p < emitted[k].startOffset + Len(emitted[k].image)
    /\ \A k \in 1..Len(emitted) :
         (Len(emitted[k].image) >= 2 /\ SubSeq(emitted[k].image, 1, 2) = <<"/", "*">>)
           <=> emitted[k].tokenType = "COMMENT"

C6_Witness ==
  /\ TokenizedWithoutError
  /\ \E p \in 1..Len(text) : IsSpace(text[p])
  /\ \E k \in 1..Len(emitted) : emitted[k].tokenType = "COMMENT"
  /\ \E k \in 1..Len(emitted) : emitted[k].tokenType = "NAME"

\* The token type registered under a name, NAME and KEYWORD included.
TokenType(name) ==
  IF name = "NAME" THEN NAME
  ELSE IF name = "KEYWORD" THEN KEYWORD
  ELSE TypeNamed(tokens, name)

KindNames == { tokens[k].name : k \in 1..Len(tokens) } \cup {"NAME", "KEYWORD"}

\* The categories of a kind, direct and inherited.
RECURSIVE CategoriesOf(_)
CategoriesOf(name) ==
  LET direct == { TokenType(name).categories[k] :
                    k \in 1..Len(TokenType(name).categories) }
  IN direct \cup UNION { CategoriesOf(c) : c \in direct }

\* A grammar position expecting a kind accepts a token of a kind.
Accepts(expected, actual) == actual = expected \/ expected \in CategoriesOf(actual)

IsIdentifierLiteral(pattern) ==
  pattern.type = "string" /\ MatchName(pattern.text, 1) = Len(pattern.text)

\* C7: every registered kind whose pattern is a literal that matches the name
\* pattern declares NAME as longer_alt and is in the KEYWORD category, which
\* is in the NAME category; a position expecting NAME accepts it, and it is
\* no kind's category, so a position expecting it accepts no other kind.
C7_KeywordsFallBackToName ==
  LET usedAsCategory == UNION { CategoriesOf(other) : other \in KindNames }
  IN \A k \in 1..Len(tokens) :
       IsIdentifierLiteral(tokens[k].pattern) =>
         /\ tokens[k].longer_alt = "NAME"
         /\ Includes(tokens[k].categories, "KEYWORD")
         /\ Includes(KEYWORD.categories, "NAME")
         /\ Accepts("NAME", tokens[k].name)
         /\ tokens[k].name \notin usedAsCategory

C7_Witness ==
  /\ lexpc = "ready"
  /\ \E k \in 1..Len(tokens) :
       /\ tokens[k].name = "MINLENGTH"
       /\ tokens[k].categories = <<"MIN_MAX_KEYWORD", "KEYWORD">>
       /\ Accepts("MIN_MAX_KEYWORD", "MINLENGTH")
  /\ \E k \in 1..Len(tokens) :
       /\ tokens[k].name = "BASE_NAME"
       /\ tokens[k].categories = <<"CONFIG_KEY", "KEYWORD">>
  /\ \E k \in 1..Len(tokens) :
       /\ tokens[k].name = "ENTITY"
       /\ tokens[k].categories = <<"KEYWORD">>

IsStrictPrefix(short, long) ==
  Len(short) < Len(long) /\ SubSeq(long, 1, Len(short)) = short

\* C8: in the lexer's definition no literal comes before a literal it is a
\* strict prefix of, and tokenizing the literal text of a kind yields exactly
\* one token, of that kind.
C8_LiteralTextYieldsItsOwnKind ==
  /\ \A i, j \in 1..Len(JDLLexer) :
       (/\ i < j
        /\ JDLLexer[i].pattern.type = "string"
        /\ JDLLexer[j].pattern.type = "string")
         => ~IsStrictPrefix(JDLLexer[i].pattern.text, JDLLexer[j].pattern.text)
  /\ lexpc = "done" =>
       \A k \in 1..Len(JDLLexer) :
         (JDLLexer[k].pattern.type = "string" /\ JDLLexer[k].pattern.text = text) =>
           /\ errors = {}
           /\ emitted = <<[tokenType |-> JDLLexer[k].name, image |-> text,
                           startOffset |-> 1]>>

sApplicationType == <<"a","p","p","l","i","c","a","t","i","o","n","T","y","p","e">>

C8_Witness ==
  /\ lexpc = "done"
  /\ text = sApplicationType
  /\ emitted = <<[tokenType |-> "APPLICATION_TYPE", image |-> text, startOffset |-> 1]>>
  /\ \E i, j \in 1..Len(JDLLexer) :
       /\ i < j
       /\ JDLLexer[i].name = "APPLICATION_TYPE"
       /\ JDLLexer[j].name = "APPLICATION"

\* ------------------------------------------------------------------------
\* Application membership
\* ------------------------------------------------------------------------

\* C11: for every application block, the assembled application's entities are
\* all declared entity names in declaration order when the member list is
\* the wildcard marker, otherwise the member list as given, in both cases
\* without the names of the exclusion list.
C11_ApplicationEntitiesAreMembersMinusExcluded ==
  \A i \in Calls : Done(i) =>
    \A k \in 1..Len(input[i].applications) :
      LET declared == input[i].applications[k]
          members == IF declared.entities.entityList = <<sStar>>
                       THEN EntityNames(input[i])
                       ELSE declared.entities.entityList
          expected == SelectSeq(members,
                                LAMBDA name : ~Includes(declared.entities.excluded, name))
      IN /\ declared.config.baseName \in DOMAIN result[i].applications
         /\ result[i].applications[declared.config.baseName].entities = expected

C11_Witness ==
  \E i \in Calls :
    /\ Done(i)
    /\ EntityNames(input[i]) = <<sA, sB>>
    /\ \E k \in 1..Len(input[i].applications) :
         /\ input[i].applications[k].entities = [entityList |-> <<sStar>>, excluded |-> <<sA>>]
         /\ result[i].applications[input[i].applications[k].config.baseName].entities = <<sB>>
    /\ \E k \in 1..Len(input[i].applications) :
         /\ input[i].applications[k].entities.entityList = <<sB, sA, sUser>>
         /\ result[i].applications[input[i].applications[k].config.baseName].entities
              = <<sB, sUser>>
====
